---------------------------- MODULE Spec2Model ----------------------------
(***************************************************************************)
(* The Lambda layer script generator of src/src/lambda-layer-generator.js: *)
(* the DOMContentLoaded handler's state (selectedVersion, packageManager,  *)
(* the form fields, the 'selected' classes, the generated text, the copy   *)
(* button's label, the clipboard promises and timers in flight) and one    *)
(* action per event handler or callback.                                   *)
(*                                                                         *)
(* A JavaScript string is the sequence of its characters, each a           *)
(* one-character string: "3.10" is <<"3", ".", "1", "0">>.                 *)
(***************************************************************************)
EXTENDS Integers, Sequences, FiniteSets, TLC

VARIABLES
  selectedVersion,     \* let selectedVersion (line 13)
  packageManager,      \* let packageManager (line 14)
  librariesValue,      \* librariesTextarea.value
  zipNameValue,        \* zipNameInput.value
  versionSelected,     \* the .version-btn elements whose classList holds 'selected'
  pyenvBtnSelected,    \* pyenvBtn.classList contains 'selected'
  uvBtnSelected,       \* uvBtn.classList contains 'selected'
  generatedCode,       \* generatedCodeElement.textContent
  highlighted,         \* the text whose Prism markup the element shows
  copyBtnInnerHTML,    \* copyBtn.innerHTML
  pendingWrites,       \* navigator.clipboard.writeText promises not yet settled
  timers,              \* the pending setTimeout callbacks, oldest first: each its originalText
  unhandledRejection,  \* a promise of the page was rejected with no rejection handler
  emitted              \* what the current event handed to a platform sink

vars == <<selectedVersion, packageManager, librariesValue, zipNameValue,
          versionSelected, pyenvBtnSelected, uvBtnSelected, generatedCode,
          highlighted, copyBtnInnerHTML, pendingWrites, timers,
          unhandledRejection, emitted>>

-----------------------------------------------------------------------------
(* Bounds and inputs *)

\* At most this many clipboard promises and label timers are in flight at once.
MaxInFlight == 2

\* The runtime versions of the specification's enumerated set "3.9".."3.13".
SupportedVersions ==
  { <<"3",".","9">>, <<"3",".","1","0">>, <<"3",".","1","1">>, <<"3",".","1","2">>, <<"3",".","1","3">> }

\* A .version-btn element whose data-version is outside the supported set.
UnsupportedVersion == <<"2",".","7">>

\* The data-version attributes of the .version-btn elements of the page: the
\* click handler is attached to every one of them, whatever its data-version.
versionButtons == SupportedVersions \cup {UnsupportedVersion}

\* The texts typed into the dependency textarea.
LibraryInputs ==
  { <<>>,
    <<" "," ">>,
    <<"n","u","m","p","y","=","=","2",".","0","\n","p","a","n","d","a","s","=","=","2",".","2">>,
    <<"\t","b","o","t","o","3"," ","\n">>,
    <<"x","=","=","3",".","1","0">> }

\* The texts typed into the base-name field (a single-line input).
ZipNameInputs == { <<>>, <<"m","y","-","l","a","y","e","r">>, <<" ","v","3",".","9"," ">> }

\* The page's markup of the copy button before any click.
CopyLabel == "Copy"

-----------------------------------------------------------------------------
(* String primitives of the language, computed as the engine computes them *)

\* The white space String.prototype.trim removes, among the characters typed.
WhiteSpace == { " ", "\t", "\n", "\r" }

RECURSIVE trimStartFrom(_, _)
trimStartFrom(s, i) ==
  IF i <= Len(s) /\ s[i] \in WhiteSpace THEN trimStartFrom(s, i + 1) ELSE i

RECURSIVE trimEndFrom(_, _)
trimEndFrom(s, j) ==
  IF j >= 1 /\ s[j] \in WhiteSpace THEN trimEndFrom(s, j - 1) ELSE j

\* A faulty variant of trim: only the leading white space is removed.
trimLeadingOnly(s) == SubSeq(s, trimStartFrom(s, 1), Len(s))

\* A faulty variant of trim: nothing is removed.
trimNothing(s) == s

\* String.prototype.trim: the string without its leading and trailing white space.
trim(s) == SubSeq(s, trimStartFrom(s, 1), trimEndFrom(s, Len(s)))

RECURSIVE indexOfFrom(_, _, _)
indexOfFrom(s, c, i) ==
  IF i > Len(s) THEN 0 ELSE IF s[i] = c THEN i ELSE indexOfFrom(s, c, i + 1)

\* A faulty variant of replace: the string is returned as it is.
replaceNothing(s, c, r) == s

\* String.prototype.replace with a one-character string pattern: only the
\* first occurrence of c is replaced by r.
replace(s, c, r) ==
  LET i == indexOfFrom(s, c, 1)
  IN  IF i = 0 THEN s
      ELSE SubSeq(s, 1, i - 1) \o r \o SubSeq(s, i + 1, Len(s))

\* a || b on strings: the empty string is falsy.
orElse(a, b) == IF a = <<>> THEN b ELSE a

\* The characters encodeURIComponent leaves as they are.
Unreserved ==
  {"A","B","C","D","E","F","G","H","I","J","K","L","M","N","O","P","Q","R","S","T","U","V","W","X","Y","Z","a","b","c","d","e","f","g","h","i","j","k","l","m","n","o","p","q","r","s","t","u","v","w","x","y","z","0","1","2","3","4","5","6","7","8","9","-","_",".","!","~","*","'","(",")"}

\* The UTF-8 percent codes of the other characters the generated text can hold.
PercentCode ==
  (" " :> <<"2","0">>) @@ ("\n" :> <<"0","A">>) @@ ("\t" :> <<"0","9">>) @@
  ("\r" :> <<"0","D">>) @@ ("=" :> <<"3","D">>) @@ ("<" :> <<"3","C">>) @@
  (">" :> <<"3","E">>) @@ ("/" :> <<"2","F">>) @@ ("&" :> <<"2","6">>) @@
  ("#" :> <<"2","3">>) @@ ("%" :> <<"2","5">>)

\* One character as encodeURIComponent writes it.
encodeChar(c) == IF c \in Unreserved THEN <<c>> ELSE <<"%">> \o PercentCode[c]

\* The encodings of s[lo..hi], concatenated (by halves, to keep the evaluation shallow).
RECURSIVE encodeRange(_, _, _)
encodeRange(s, lo, hi) ==
  IF lo > hi THEN <<>>
  ELSE IF lo = hi THEN encodeChar(s[lo])
  ELSE LET mid == (lo + hi) \div 2
       IN  encodeRange(s, lo, mid) \o encodeRange(s, mid + 1, hi)

\* encodeURIComponent(text)
encodeURIComponent(s) == encodeRange(s, 1, Len(s))

-----------------------------------------------------------------------------
(* generateCode *)

Pyenv == <<"p","y","e","n","v">>
Uv == <<"u","v">>

\* A faulty variant of pyenvCode: the runtime version is not pinned (no pyenv local line).
pyenvCodeUnpinned(pyVersion, requirementsContent, zipName, pyShortVersion) ==
     <<"m","k","d","i","r"," ","-","p"," ","l","a","y","e","r","-","b","u","i","l","d","/"," ","&","&"," ","c","d"," ","l","a","y","e","r","-","b","u","i","l","d","/","\n">>
  \o <<"p","y","e","n","v"," ","w","h","i","c","h"," ","p","y","t","h","o","n","\n">>
  \o <<"\n">>
  \o <<"c","a","t"," ","<","<"," ","E","O","F"," ",">"," ","r","e","q","u","i","r","e","m","e","n","t","s",".","t","x","t","\n">>
  \o requirementsContent \o <<"\n">>
  \o <<"E","O","F","\n">>
  \o <<"\n">>
  \o <<"p","y","t","h","o","n"," ","-","m"," ","v","e","n","v"," ","c","r","e","a","t","e","_","l","a","y","e","r","\n">>
  \o <<"s","o","u","r","c","e"," ","c","r","e","a","t","e","_","l","a","y","e","r","/","b","i","n","/","a","c","t","i","v","a","t","e","\n">>
  \o <<"p","i","p"," ","i","n","s","t","a","l","l"," ","-","r"," ","r","e","q","u","i","r","e","m","e","n","t","s",".","t","x","t","\n">>
  \o <<"m","k","d","i","r"," ","-","p"," ","p","y","t","h","o","n","\n">>
  \o <<"c","p"," ","-","r"," ","c","r","e","a","t","e","_","l","a","y","e","r","/","l","i","b"," ","p","y","t","h","o","n","/","\n">>
  \o <<"z","i","p"," ","-","r"," ">> \o zipName \o <<"-","p","y">> \o pyShortVersion \o <<".","z","i","p"," ","p","y","t","h","o","n","\n">>
  \o <<"\n">>
  \o <<"#"," ","C","l","e","a","n","u","p","\n">>
  \o <<"d","e","a","c","t","i","v","a","t","e","\n">>
  \o <<"r","m"," ","-","r","f"," ","c","r","e","a","t","e","_","l","a","y","e","r","/"," ","p","y","t","h","o","n","/","\n">>

\* The template literal of the pyenv branch, lines 82-100.
pyenvCode(pyVersion, requirementsContent, zipName, pyShortVersion) ==
     <<"m","k","d","i","r"," ","-","p"," ","l","a","y","e","r","-","b","u","i","l","d","/"," ","&","&"," ","c","d"," ","l","a","y","e","r","-","b","u","i","l","d","/","\n">>
  \o <<"p","y","e","n","v"," ","l","o","c","a","l"," ">> \o pyVersion \o <<"\n">>
  \o <<"p","y","e","n","v"," ","w","h","i","c","h"," ","p","y","t","h","o","n","\n">>
  \o <<"\n">>
  \o <<"c","a","t"," ","<","<"," ","E","O","F"," ",">"," ","r","e","q","u","i","r","e","m","e","n","t","s",".","t","x","t","\n">>
  \o requirementsContent \o <<"\n">>
  \o <<"E","O","F","\n">>
  \o <<"\n">>
  \o <<"p","y","t","h","o","n"," ","-","m"," ","v","e","n","v"," ","c","r","e","a","t","e","_","l","a","y","e","r","\n">>
  \o <<"s","o","u","r","c","e"," ","c","r","e","a","t","e","_","l","a","y","e","r","/","b","i","n","/","a","c","t","i","v","a","t","e","\n">>
  \o <<"p","i","p"," ","i","n","s","t","a","l","l"," ","-","r"," ","r","e","q","u","i","r","e","m","e","n","t","s",".","t","x","t","\n">>
  \o <<"m","k","d","i","r"," ","-","p"," ","p","y","t","h","o","n","\n">>
  \o <<"c","p"," ","-","r"," ","c","r","e","a","t","e","_","l","a","y","e","r","/","l","i","b"," ","p","y","t","h","o","n","/","\n">>
  \o <<"z","i","p"," ","-","r"," ">> \o zipName \o <<"-","p","y">> \o pyShortVersion \o <<".","z","i","p"," ","p","y","t","h","o","n","\n">>
  \o <<"\n">>
  \o <<"#"," ","C","l","e","a","n","u","p","\n">>
  \o <<"d","e","a","c","t","i","v","a","t","e","\n">>
  \o <<"r","m"," ","-","r","f"," ","c","r","e","a","t","e","_","l","a","y","e","r","/"," ","p","y","t","h","o","n","/","\n">>

\* A faulty variant of uvCode: the cleanup is emitted before the archive is created.
uvCodeCleanupFirst(pyVersion, requirementsContent, zipName, pyShortVersion) ==
     <<"m","k","d","i","r"," ","-","p"," ","l","a","y","e","r","-","b","u","i","l","d","/"," ","&","&"," ","c","d"," ","l","a","y","e","r","-","b","u","i","l","d","/","\n">>
  \o <<"c","a","t"," ","<","<"," ","E","O","F"," ",">"," ","r","e","q","u","i","r","e","m","e","n","t","s",".","t","x","t","\n">>
  \o requirementsContent \o <<"\n">>
  \o <<"E","O","F","\n">>
  \o <<"\n">>
  \o <<"u","v"," ","v","e","n","v"," ","-","-","p","y","t","h","o","n"," ">> \o pyVersion \o <<" ","c","r","e","a","t","e","_","l","a","y","e","r","/","\n">>
  \o <<"s","o","u","r","c","e"," ","c","r","e","a","t","e","_","l","a","y","e","r","/","b","i","n","/","a","c","t","i","v","a","t","e","\n">>
  \o <<"u","v"," ","p","i","p"," ","i","n","s","t","a","l","l"," ","-","r"," ","r","e","q","u","i","r","e","m","e","n","t","s",".","t","x","t","\n">>
  \o <<"m","k","d","i","r"," ","-","p"," ","p","y","t","h","o","n","\n">>
  \o <<"c","p"," ","-","r"," ","c","r","e","a","t","e","_","l","a","y","e","r","/","l","i","b"," ","p","y","t","h","o","n","/","\n">>
  \o <<"\n">>
  \o <<"#"," ","C","l","e","a","n","u","p","\n">>
  \o <<"d","e","a","c","t","i","v","a","t","e","\n">>
  \o <<"r","m"," ","-","r","f"," ","c","r","e","a","t","e","_","l","a","y","e","r","/"," ","p","y","t","h","o","n","/","\n">>
  \o <<"z","i","p"," ","-","r"," ">> \o zipName \o <<"-","p","y">> \o pyShortVersion \o <<".","z","i","p"," ","p","y","t","h","o","n","\n">>

\* The template literal of the uv branch, lines 102-117.
uvCode(pyVersion, requirementsContent, zipName, pyShortVersion) ==
     <<"m","k","d","i","r"," ","-","p"," ","l","a","y","e","r","-","b","u","i","l","d","/"," ","&","&"," ","c","d"," ","l","a","y","e","r","-","b","u","i","l","d","/","\n">>
  \o <<"c","a","t"," ","<","<"," ","E","O","F"," ",">"," ","r","e","q","u","i","r","e","m","e","n","t","s",".","t","x","t","\n">>
  \o requirementsContent \o <<"\n">>
  \o <<"E","O","F","\n">>
  \o <<"\n">>
  \o <<"u","v"," ","v","e","n","v"," ","-","-","p","y","t","h","o","n"," ">> \o pyVersion \o <<" ","c","r","e","a","t","e","_","l","a","y","e","r","/","\n">>
  \o <<"s","o","u","r","c","e"," ","c","r","e","a","t","e","_","l","a","y","e","r","/","b","i","n","/","a","c","t","i","v","a","t","e","\n">>
  \o <<"u","v"," ","p","i","p"," ","i","n","s","t","a","l","l"," ","-","r"," ","r","e","q","u","i","r","e","m","e","n","t","s",".","t","x","t","\n">>
  \o <<"m","k","d","i","r"," ","-","p"," ","p","y","t","h","o","n","\n">>
  \o <<"c","p"," ","-","r"," ","c","r","e","a","t","e","_","l","a","y","e","r","/","l","i","b"," ","p","y","t","h","o","n","/","\n">>
  \o <<"z","i","p"," ","-","r"," ">> \o zipName \o <<"-","p","y">> \o pyShortVersion \o <<".","z","i","p"," ","p","y","t","h","o","n","\n">>
  \o <<"\n">>
  \o <<"#"," ","C","l","e","a","n","u","p","\n">>
  \o <<"d","e","a","c","t","i","v","a","t","e","\n">>
  \o <<"r","m"," ","-","r","f"," ","c","r","e","a","t","e","_","l","a","y","e","r","/"," ","p","y","t","h","o","n","/","\n">>

\* The text generateCode computes from the form fields and the selections.
generateCode(libsValue, nameValue, version, manager) ==
  LET libraries == trim(libsValue)
      zipName == orElse(trim(nameValue), <<"l","a","m","b","d","a","-","l","a","y","e","r">>)
      pyVersion == version
      pyShortVersion == replace(pyVersion, ".", <<>>)
      requirementsContent == orElse(libraries, <<"r","e","q","u","e","s","t","s","=","=","2",".","3","2",".","3">>)
  IN  IF manager = Pyenv
      THEN pyenvCode(pyVersion, requirementsContent, zipName, pyShortVersion)
      ELSE uvCode(pyVersion, requirementsContent, zipName, pyShortVersion)

\* generateCode's two last statements: the text is stored in the element and
\* Prism highlights the element's text in place.
Render(libsValue, nameValue, version, manager) ==
  /\ generatedCode' = generateCode(libsValue, nameValue, version, manager)
  /\ highlighted' = generateCode(libsValue, nameValue, version, manager)

-----------------------------------------------------------------------------
(* Platform sinks *)

NoOutput == [sink |-> "none", name |-> <<>>, data |-> <<>>]

\* navigator.clipboard.writeText(text)
ClipboardWrite(text) == [sink |-> "clipboard", name |-> <<>>, data |-> text]

\* The click on the temporary <a href=... download=...> element.
Download(filename, href) == [sink |-> "download", name |-> filename, data |-> href]

-----------------------------------------------------------------------------
(* The state after the DOMContentLoaded handler has run *)

\* The 'selected' classes of the page's markup: the buttons of the initial
\* selections of lines 13-14.
InitialVersionSelected == { <<"3",".","1","0">> }
InitialPyenvSelected == TRUE
InitialUvSelected == FALSE

Init ==
  /\ selectedVersion = <<"3",".","1","0">>
  /\ packageManager = Pyenv
  /\ librariesValue = <<>>
  /\ zipNameValue = <<>>
  /\ versionSelected = InitialVersionSelected
  /\ pyenvBtnSelected = InitialPyenvSelected
  /\ uvBtnSelected = InitialUvSelected
  /\ generatedCode = generateCode(<<>>, <<>>, <<"3",".","1","0">>, Pyenv)
  /\ highlighted = generateCode(<<>>, <<>>, <<"3",".","1","0">>, Pyenv)
  /\ copyBtnInnerHTML = CopyLabel
  /\ pendingWrites = 0
  /\ timers = <<>>
  /\ unhandledRejection = FALSE
  /\ emitted = NoOutput

-----------------------------------------------------------------------------
(* Event handlers *)

copyState == <<copyBtnInnerHTML, pendingWrites, timers, unhandledRejection>>
formState == <<librariesValue, zipNameValue>>
selectionState == <<selectedVersion, packageManager, versionSelected,
                    pyenvBtnSelected, uvBtnSelected>>

\* The click handler of a .version-btn element, lines 21-26.
versionBtnClick(btn) ==
  /\ versionSelected' = (versionSelected \ versionButtons) \cup {btn}
  /\ selectedVersion' = btn
  /\ Render(librariesValue, zipNameValue, btn, packageManager)
  /\ emitted' = NoOutput
  /\ UNCHANGED <<packageManager, pyenvBtnSelected, uvBtnSelected, formState, copyState>>

\* The click handler of pyenvBtn, lines 29-34.
pyenvBtnClick ==
  /\ pyenvBtnSelected' = TRUE
  /\ uvBtnSelected' = FALSE
  /\ packageManager' = Pyenv
  /\ Render(librariesValue, zipNameValue, selectedVersion, Pyenv)
  /\ emitted' = NoOutput
  /\ UNCHANGED <<selectedVersion, versionSelected, formState, copyState>>

\* A faulty variant of uvBtnClick: pyenvBtn keeps its 'selected' class.
uvBtnClickKeepsPyenv ==
  /\ uvBtnSelected' = TRUE
  /\ packageManager' = Uv
  /\ Render(librariesValue, zipNameValue, selectedVersion, Uv)
  /\ emitted' = NoOutput
  /\ UNCHANGED <<pyenvBtnSelected, selectedVersion, versionSelected, formState, copyState>>

\* The click handler of uvBtn, lines 36-41.
uvBtnClick ==
  /\ uvBtnSelected' = TRUE
  /\ pyenvBtnSelected' = FALSE
  /\ packageManager' = Uv
  /\ Render(librariesValue, zipNameValue, selectedVersion, Uv)
  /\ emitted' = NoOutput
  /\ UNCHANGED <<selectedVersion, versionSelected, formState, copyState>>

\* The input event of the dependency textarea, line 43: the field holds the
\* new text when generateCode runs.
librariesInput(text) ==
  /\ librariesValue' = text
  /\ Render(text, zipNameValue, selectedVersion, packageManager)
  /\ emitted' = NoOutput
  /\ UNCHANGED <<zipNameValue, selectionState, copyState>>

\* A faulty variant of zipNameInput: the field changes and nothing is regenerated.
zipNameInputNoRender(text) ==
  /\ zipNameValue' = text
  /\ emitted' = NoOutput
  /\ UNCHANGED <<generatedCode, highlighted, librariesValue, selectionState, copyState>>

\* The input event of the base-name field, line 44.
zipNameInput(text) ==
  /\ zipNameValue' = text
  /\ Render(librariesValue, text, selectedVersion, packageManager)
  /\ emitted' = NoOutput
  /\ UNCHANGED <<librariesValue, selectionState, copyState>>

\* The click handler of copyBtn, line 47: writeText is called with the
\* element's textContent and returns a pending promise.
copyBtnClick ==
  /\ pendingWrites + Len(timers) < MaxInFlight
  /\ pendingWrites' = pendingWrites + 1
  /\ emitted' = ClipboardWrite(generatedCode)
  /\ UNCHANGED <<selectionState, formState, generatedCode, highlighted,
                 copyBtnInnerHTML, timers, unhandledRejection>>

\* The fulfilment callback of a writeText promise, lines 48-54.
clipboardResolved ==
  /\ pendingWrites > 0
  /\ pendingWrites' = pendingWrites - 1
  /\ timers' = Append(timers, copyBtnInnerHTML)
  /\ copyBtnInnerHTML' = "<span>Copied!</span>"
  /\ emitted' = NoOutput
  /\ UNCHANGED <<selectionState, formState, generatedCode, highlighted,
                 unhandledRejection>>

\* A writeText promise is rejected: lines 47-54 register no rejection handler.
clipboardRejected ==
  /\ pendingWrites > 0
  /\ pendingWrites' = pendingWrites - 1
  /\ unhandledRejection' = TRUE
  /\ emitted' = NoOutput
  /\ UNCHANGED <<selectionState, formState, generatedCode, highlighted,
                 copyBtnInnerHTML, timers>>

\* The setTimeout callback of lines 51-53; equal delays fire oldest first.
timerFired ==
  /\ timers # <<>>
  /\ copyBtnInnerHTML' = Head(timers)
  /\ timers' = Tail(timers)
  /\ emitted' = NoOutput
  /\ UNCHANGED <<selectionState, formState, generatedCode, highlighted,
                 pendingWrites, unhandledRejection>>

\* The click handler of downloadBtn, lines 57-67.
downloadBtnClick ==
  LET filename == <<"l","a","m","b","d","a","-","l","a","y","e","r","-">> \o packageManager \o <<"-","p","y">>
                  \o replace(selectedVersion, ".", <<>>) \o <<".","s","h">>
      text == generatedCode
  IN  /\ emitted' = Download(filename,
                      <<"d","a","t","a",":","t","e","x","t","/","p","l","a","i","n",";","c","h","a","r","s","e","t","=","u","t","f","-","8",",">> \o encodeURIComponent(text))
      /\ UNCHANGED <<selectionState, formState, generatedCode, highlighted, copyState>>

-----------------------------------------------------------------------------
(* Specifications *)

\* The configuration events alone: the Configuration Store and the generator.
NextGen ==
  \/ \E btn \in versionButtons : versionBtnClick(btn)
  \/ pyenvBtnClick
  \/ uvBtnClick
  \/ \E text \in LibraryInputs : librariesInput(text)
  \/ \E text \in ZipNameInputs : zipNameInput(text)

SpecGen == Init /\ [][NextGen]_vars

\* Every event of the page.
Next ==
  \/ \E btn \in versionButtons : versionBtnClick(btn)
  \/ pyenvBtnClick
  \/ uvBtnClick
  \/ \E text \in LibraryInputs : librariesInput(text)
  \/ \E text \in ZipNameInputs : zipNameInput(text)
  \/ copyBtnClick
  \/ clipboardResolved
  \/ clipboardRejected
  \/ timerFired
  \/ downloadBtnClick

Spec == Init /\ [][Next]_vars

-----------------------------------------------------------------------------
(* Reading a generated text *)

Min(S) == CHOOSE x \in S : \A y \in S : x <= y
Max(S) == CHOOSE x \in S : \A y \in S : x >= y

\* p occurs in s at index i.
OccursAt(s, p, i) ==
  /\ i >= 1
  /\ i + Len(p) - 1 <= Len(s)
  /\ \A k \in 1..Len(p) : s[i + k - 1] = p[k]

\* The number of occurrences of p in s.
Count(s, p) == Cardinality({ i \in 1..Len(s) : OccursAt(s, p, i) })

IsLineStart(s, i) == i = 1 \/ s[i - 1] = "\n"

\* Where a line of s begins with p.
LinesStarting(s, p) == { i \in 1..Len(s) : IsLineStart(s, i) /\ OccursAt(s, p, i) }

\* Where a line of s is exactly the line l.
LinesEqual(s, l) == LinesStarting(s, l \o <<"\n">>)

HasPrefix(s, p) == OccursAt(s, p, 1)
HasSuffix(s, p) == OccursAt(s, p, Len(s) - Len(p) + 1)

\* A text is blank when it is empty or holds white space only.
IsBlank(s) == \A i \in 1..Len(s) : s[i] \in WhiteSpace

\* A text from its first to its last character that is not white space.
Core(s) ==
  LET solid == { i \in 1..Len(s) : s[i] \notin WhiteSpace }
  IN  IF solid = {} THEN <<>> ELSE SubSeq(s, Min(solid), Max(solid))

\* A version without its dots: "3.11" is "311".
DotFree(v) == SelectSeq(v, LAMBDA c : c # ".")

DefaultDependencyLine == <<"r","e","q","u","e","s","t","s","=","=","2",".","3","2",".","3">>
DefaultBaseName == <<"l","a","m","b","d","a","-","l","a","y","e","r">>

\* The dependency text and base name the specification resolves (section 4.2,
\* steps 1 and 2), white space around them set aside.
ResolvedDependencies ==
  IF IsBlank(librariesValue) THEN DefaultDependencyLine ELSE Core(librariesValue)
ResolvedBaseName ==
  IF IsBlank(zipNameValue) THEN DefaultBaseName ELSE Core(zipNameValue)

OtherManager == IF packageManager = Pyenv THEN Uv ELSE Pyenv

CatLine == <<"c","a","t"," ","<","<"," ","E","O","F"," ",">"," ","r","e","q","u","i","r","e","m","e","n","t","s",".","t","x","t">>
EofLine == <<"E","O","F">>
ZipCommand == <<"z","i","p"," ","-","r"," ">>
ZipOperand == <<".","z","i","p"," ","p","y","t","h","o","n">>
DeactivateLine == <<"d","e","a","c","t","i","v","a","t","e">>
RemoveLine == <<"r","m"," ","-","r","f"," ","c","r","e","a","t","e","_","l","a","y","e","r","/"," ","p","y","t","h","o","n","/">>

\* The archive name of the last zip line of a text: what stands between
\* "zip -r " and ".zip python".
ArchiveNameOf(text) ==
  LET i == Max(LinesStarting(text, ZipCommand))
      j == Min({ k \in i..Len(text) : text[k] = "\n" })
  IN  SubSeq(text, i + Len(ZipCommand), j - 1 - Len(ZipOperand))

\* The strategy tag of an archive name <base>-<tag><short version>.
TagOf(name, base, short) ==
  SubSeq(name, Len(base) + 2, Len(name) - Len(short))

\* The text the browser reads back from the data URL of a download.
DataUrlPrefix == <<"d","a","t","a",":","t","e","x","t","/","p","l","a","i","n",";","c","h","a","r","s","e","t","=","u","t","f","-","8",",">>
Unescape(h) == CHOOSE c \in DOMAIN PercentCode : PercentCode[c] = h
RECURSIVE DecodeRange(_, _, _)
DecodeRange(e, lo, hi) ==
  IF lo > hi THEN <<>>
  ELSE IF lo = hi
       THEN IF e[lo] = "%" THEN <<Unescape(<<e[lo + 1], e[lo + 2]>>)>>
            ELSE IF (lo > 1 /\ e[lo - 1] = "%") \/ (lo > 2 /\ e[lo - 2] = "%")
                 THEN <<>>
                 ELSE <<e[lo]>>
       ELSE LET mid == (lo + hi) \div 2
            IN  DecodeRange(e, lo, mid) \o DecodeRange(e, mid + 1, hi)
DataUrlText(href) ==
  LET payload == SubSeq(href, Len(DataUrlPrefix) + 1, Len(href))
  IN  DecodeRange(payload, 1, Len(payload))

-----------------------------------------------------------------------------
(* C1 *)

\* C1: selecting a runtime version outside the supported set is rejected with
\* InvalidVersion and changes nothing. The initial version is supported, so
\* under the claim the stored version is supported in every state and the
\* displayed text is never regenerated for an unsupported one.
C1_InvalidVersionRejected ==
  /\ selectedVersion \in SupportedVersions
  /\ Count(generatedCode, UnsupportedVersion) = 0

-----------------------------------------------------------------------------
(* C2 *)

\* C2 as stated: for a supported version the text holds exactly one zip
\* command, named <resolved base name>-<strategy tag><version without dot>,
\* and the tag differs between the two strategies.
C2_ArchiveNameStrategyTag ==
  selectedVersion \in SupportedVersions =>
    LET base == ResolvedBaseName
        short == DotFree(selectedVersion)
        here == ArchiveNameOf(generatedCode)
        there == ArchiveNameOf(generateCode(librariesValue, zipNameValue,
                                            selectedVersion, OtherManager))
    IN  /\ Cardinality(LinesStarting(generatedCode, ZipCommand)) = 1
        /\ HasPrefix(here, base \o <<"-">>)
        /\ HasSuffix(here, short)
        /\ TagOf(here, base, short) # TagOf(there, base, short)

\* C2 amended: for a supported version the text holds exactly one zip command
\* outside the dependency text; it is the line
\* "zip -r <resolved base name>-py<version without dot>.zip python", and the
\* tag "py" is the same for both strategies.
C2_ArchiveName ==
  selectedVersion \in SupportedVersions =>
    LET name == ResolvedBaseName \o <<"-","p","y">> \o DotFree(selectedVersion)
        zips == LinesStarting(generatedCode, ZipCommand)
        there == generateCode(librariesValue, zipNameValue, selectedVersion, OtherManager)
    IN  /\ Cardinality(zips) =
             1 + Cardinality(LinesStarting(ResolvedDependencies \o <<"\n">>, ZipCommand))
        /\ OccursAt(generatedCode, ZipCommand \o name \o ZipOperand \o <<"\n">>, Max(zips))
        /\ ArchiveNameOf(generatedCode) = name
        /\ ArchiveNameOf(there) = name

\* C2: the uv strategy, version 3.13 and a base name with white space around it.
C2_Witness ==
  /\ packageManager = Uv
  /\ selectedVersion = <<"3",".","1","3">>
  /\ zipNameValue = <<" ","v","3",".","9"," ">>
  /\ Count(generatedCode, <<"\n","z","i","p"," ","-","r"," ","v","3",".","9","-","p","y","3","1","3",".","z","i","p"," ","p","y","t","h","o","n","\n">>) = 1

-----------------------------------------------------------------------------
(* C3 *)

\* C3 as stated: a dependency text that is not blank stands in the manifest,
\* right after the cat line and right before the EOF line, exactly as entered.
C3_DependenciesVerbatim ==
  ~IsBlank(librariesValue) =>
    OccursAt(generatedCode,
             CatLine \o <<"\n">> \o librariesValue \o <<"\n">> \o EofLine \o <<"\n">>,
             Min(LinesEqual(generatedCode, CatLine)))

\* C3 amended: a dependency text that is not blank stands in the manifest
\* without its leading and trailing white space; what lies between its first
\* and last non-blank characters is kept as entered, in order.
C3_DependenciesTrimmed ==
  ~IsBlank(librariesValue) =>
    OccursAt(generatedCode,
             CatLine \o <<"\n">> \o Core(librariesValue) \o <<"\n">> \o EofLine \o <<"\n">>,
             Min(LinesEqual(generatedCode, CatLine)))

\* C3: a dependency text with white space around it, in the uv manifest.
C3_Witness ==
  /\ packageManager = Uv
  /\ librariesValue = <<"\t","b","o","t","o","3"," ","\n">>
  /\ Count(generatedCode, <<"r","e","q","u","i","r","e","m","e","n","t","s",".","t","x","t","\n","b","o","t","o","3","\n","E","O","F","\n">>) = 1

-----------------------------------------------------------------------------
(* C4 *)

\* C4: with an empty dependency text the manifest holds the default line
\* requests==2.32.3, and a text of white space only gives the same generated
\* text as the empty one, for every version and both strategies.
C4_DefaultDependencies ==
  IsBlank(librariesValue) =>
    /\ OccursAt(generatedCode,
                CatLine \o <<"\n">> \o DefaultDependencyLine \o <<"\n">> \o EofLine \o <<"\n">>,
                Min(LinesEqual(generatedCode, CatLine)))
    /\ generatedCode = generateCode(<<>>, zipNameValue, selectedVersion, packageManager)

\* C4: a dependency text of two spaces gives the default manifest line.
C4_Witness ==
  /\ librariesValue = <<" "," ">>
  /\ packageManager = Uv
  /\ selectedVersion = <<"3",".","1","2">>
  /\ Count(generatedCode, <<"\n","r","e","q","u","e","s","t","s","=","=","2",".","3","2",".","3","\n","E","O","F","\n">>) = 1

-----------------------------------------------------------------------------
(* C5 *)

\* The first place of a line of the template's head and the last place of a
\* line of its tail: the dependency text lies between them.
FirstLine(l) == Min(LinesEqual(generatedCode, l))
LastLine(l) == Max(LinesEqual(generatedCode, l))
Increasing(p) == \A k \in 1..(Len(p) - 1) : p[k] < p[k + 1]

SetupLine == <<"m","k","d","i","r"," ","-","p"," ","l","a","y","e","r","-","b","u","i","l","d","/"," ","&","&"," ","c","d"," ","l","a","y","e","r","-","b","u","i","l","d","/">>
PyenvLocalLine == <<"p","y","e","n","v"," ","l","o","c","a","l"," ">> \o selectedVersion
PyenvWhichLine == <<"p","y","e","n","v"," ","w","h","i","c","h"," ","p","y","t","h","o","n">>
PythonVenvLine == <<"p","y","t","h","o","n"," ","-","m"," ","v","e","n","v"," ","c","r","e","a","t","e","_","l","a","y","e","r">>
UvVenvLine == <<"u","v"," ","v","e","n","v"," ","-","-","p","y","t","h","o","n"," ">> \o selectedVersion \o <<" ","c","r","e","a","t","e","_","l","a","y","e","r","/">>
ActivateLine == <<"s","o","u","r","c","e"," ","c","r","e","a","t","e","_","l","a","y","e","r","/","b","i","n","/","a","c","t","i","v","a","t","e">>
PipInstallLine == <<"p","i","p"," ","i","n","s","t","a","l","l"," ","-","r"," ","r","e","q","u","i","r","e","m","e","n","t","s",".","t","x","t">>
UvPipInstallLine == <<"u","v"," ","p","i","p"," ","i","n","s","t","a","l","l"," ","-","r"," ","r","e","q","u","i","r","e","m","e","n","t","s",".","t","x","t">>
StageLine == <<"m","k","d","i","r"," ","-","p"," ","p","y","t","h","o","n">>
CopyLine == <<"c","p"," ","-","r"," ","c","r","e","a","t","e","_","l","a","y","e","r","/","l","i","b"," ","p","y","t","h","o","n","/">>

\* The commands that select the runtime version or create the environment.
EnvironmentCommands ==
  LinesStarting(generatedCode, <<"p","y","e","n","v"," ">>) \cup
  LinesStarting(generatedCode, <<"p","y","t","h","o","n"," ","-","m"," ","v","e","n","v">>) \cup
  LinesStarting(generatedCode, <<"u","v"," ","v","e","n","v">>)

\* The lines after the manifest, up to the cleanup: the same in both
\* strategies but for the install command.
TailInOrder(install) ==
  /\ \A l \in { ActivateLine, install, StageLine, CopyLine, DeactivateLine, RemoveLine } :
       LinesEqual(generatedCode, l) # {}
  /\ LinesStarting(generatedCode, ZipCommand) # {}
  /\ Increasing(<< LastLine(ActivateLine), LastLine(install), LastLine(StageLine),
                   LastLine(CopyLine), Max(LinesStarting(generatedCode, ZipCommand)),
                   LastLine(DeactivateLine), LastLine(RemoveLine) >>)
  /\ HasSuffix(generatedCode, DeactivateLine \o <<"\n">> \o RemoveLine \o <<"\n">>)

\* The cleanup lines occur once outside the dependency text.
CleanupOnce ==
  \A l \in { DeactivateLine, RemoveLine } :
    Cardinality(LinesEqual(generatedCode, l)) =
      1 + Cardinality(LinesEqual(ResolvedDependencies \o <<"\n">>, l))

\* C5 as stated: in both strategies the order is directory setup, manifest
\* heredoc, environment creation for the selected version, install, copy,
\* archive, cleanup; the cleanup occurs once, after the archive; and no
\* runtime-version or environment command precedes the manifest heredoc.
C5_CommandOrder ==
  /\ HasPrefix(generatedCode, SetupLine \o <<"\n">>)
  /\ LinesEqual(generatedCode, CatLine) # {}
  /\ \A i \in EnvironmentCommands : FirstLine(CatLine) < i
  /\ TailInOrder(IF packageManager = Pyenv THEN PipInstallLine ELSE UvPipInstallLine)
  /\ CleanupOnce

\* C5 amended: in the uv strategy the order is directory setup, manifest
\* heredoc, uv venv for the selected version, activation, install, staging,
\* copy, archive, cleanup. In the pyenv strategy the runtime version is
\* selected (pyenv local <version>, pyenv which python) between the directory
\* setup and the manifest heredoc, and python -m venv follows the heredoc. In
\* both, the cleanup (deactivate, rm -rf) ends the text, after the archive
\* command, and occurs once outside the dependency text.
C5_CommandOrderByStrategy ==
  /\ HasPrefix(generatedCode, SetupLine \o <<"\n">>)
  /\ LinesEqual(generatedCode, CatLine) # {}
  /\ LinesEqual(generatedCode, EofLine) # {}
  /\ FirstLine(CatLine) < LastLine(EofLine)
  /\ IF packageManager = Pyenv
     THEN /\ LinesEqual(generatedCode, PyenvLocalLine) # {}
          /\ LinesEqual(generatedCode, PyenvWhichLine) # {}
          /\ LinesEqual(generatedCode, PythonVenvLine) # {}
          /\ Increasing(<< 1, FirstLine(PyenvLocalLine), FirstLine(PyenvWhichLine),
                           FirstLine(CatLine) >>)
          /\ Increasing(<< LastLine(EofLine), LastLine(PythonVenvLine),
                           LastLine(ActivateLine) >>)
          /\ TailInOrder(PipInstallLine)
     ELSE /\ LinesEqual(generatedCode, UvVenvLine) # {}
          /\ FirstLine(CatLine) = Len(SetupLine) + 2
          /\ Increasing(<< LastLine(EofLine), LastLine(UvVenvLine),
                           LastLine(ActivateLine) >>)
          /\ \A i \in EnvironmentCommands : FirstLine(CatLine) < i
          /\ TailInOrder(UvPipInstallLine)
  /\ CleanupOnce

\* C5: a uv script with a manifest of two lines, followed by uv venv.
C5_Witness ==
  /\ packageManager = Uv
  /\ selectedVersion = <<"3",".","9">>
  /\ librariesValue = <<"n","u","m","p","y","=","=","2",".","0","\n","p","a","n","d","a","s","=","=","2",".","2">>
  /\ Count(generatedCode, <<"E","O","F","\n","\n","u","v"," ","v","e","n","v"," ","-","-","p","y","t","h","o","n"," ","3",".","9"," ","c","r","e","a","t","e","_","l","a","y","e","r","/","\n">>) = 1

-----------------------------------------------------------------------------
(* C6 *)

\* C6 as stated: for a supported version the text holds exactly one
\* occurrence of the version string, whatever the dependency text and the
\* base name are.
C6_VersionOnce ==
  selectedVersion \in SupportedVersions =>
    Count(generatedCode, selectedVersion) = 1

\* C6 amended: for a supported version the text holds exactly one occurrence
\* of the version string outside the dependency text and the base name: one
\* more than those two hold themselves, and exactly one when they hold none.
C6_VersionOnceOutsideInputs ==
  selectedVersion \in SupportedVersions =>
    Count(generatedCode, selectedVersion) =
      1 + Count(ResolvedDependencies, selectedVersion)
        + Count(ResolvedBaseName, selectedVersion)

\* C6: the dependency text itself holds the selected version.
C6_Witness ==
  /\ selectedVersion = <<"3",".","1","0">>
  /\ librariesValue = <<"x","=","=","3",".","1","0">>
  /\ packageManager = Pyenv
  /\ Count(generatedCode, selectedVersion) = 2

-----------------------------------------------------------------------------
(* C7 *)

\* C7: in every state the displayed text is generateCode of the current form
\* fields and selections, the highlighted markup is that of this text, and a
\* copy or download issued in this state carries this plain text.
C7_DisplayedIsGenerated ==
  LET current == generateCode(librariesValue, zipNameValue, selectedVersion, packageManager)
  IN  /\ generatedCode = current
      /\ highlighted = current
      /\ emitted.sink = "clipboard" => emitted.data = current
      /\ emitted.sink = "download" =>
           /\ HasPrefix(emitted.data, DataUrlPrefix)
           /\ DataUrlText(emitted.data) = current

\* C7: a download issued after the strategy, dependencies and base name were changed.
C7_Witness ==
  /\ emitted.sink = "download"
  /\ packageManager = Uv
  /\ zipNameValue = <<"m","y","-","l","a","y","e","r">>
  /\ librariesValue = <<"n","u","m","p","y","=","=","2",".","0","\n","p","a","n","d","a","s","=","=","2",".","2">>
  /\ emitted.name = <<"l","a","m","b","d","a","-","l","a","y","e","r","-","u","v","-","p","y">> \o DotFree(selectedVersion) \o <<".","s","h">>
  /\ Count(DataUrlText(emitted.data), <<"\n","z","i","p"," ","-","r"," ","m","y","-","l","a","y","e","r","-","p","y">>) = 1

-----------------------------------------------------------------------------
(* C8 *)

\* C8: a failed clipboard write is reported as ClipboardUnavailable, that is
\* the rejection is handled: no promise of the page is ever left rejected
\* without a handler.
C8_ClipboardFailureHandled == ~unhandledRejection

-----------------------------------------------------------------------------
(* C9 *)

\* C9: in every state exactly one version and exactly one strategy are
\* selected, the stored strategy is one of the two variants, and the buttons
\* marked 'selected' are exactly the version button and the strategy button
\* of the stored selectedVersion and packageManager.
C9_ExactlyOneSelected ==
  /\ packageManager \in { Pyenv, Uv }
  /\ selectedVersion \in versionButtons
  /\ versionSelected = { selectedVersion }
  /\ pyenvBtnSelected = (packageManager = Pyenv)
  /\ uvBtnSelected = (packageManager = Uv)
  /\ pyenvBtnSelected # uvBtnSelected

\* C9: after a version click and a strategy click.
C9_Witness ==
  /\ packageManager = Uv
  /\ uvBtnSelected
  /\ ~pyenvBtnSelected
  /\ selectedVersion = <<"3",".","1","3">>
  /\ versionSelected = { <<"3",".","1","3">> }
  /\ Count(generatedCode, <<"u","v"," ","v","e","n","v"," ","-","-","p","y","t","h","o","n"," ","3",".","1","3"," ">>) = 1
  /\ Count(highlighted, <<"p","y","e","n","v"," ","l","o","c","a","l">>) = 0

-----------------------------------------------------------------------------
(* C10 *)

\* C10: once every clipboard write has succeeded and every pending timer has
\* fired, the copy button shows its original label again.
C10_LabelRestored ==
  (pendingWrites = 0 /\ timers = <<>> /\ ~unhandledRejection) =>
    copyBtnInnerHTML = CopyLabel

=============================================================================
